---- MODULE Spec2Model ----
(***************************************************************************)
(* Document ingestion, exact/near duplicate detection and version          *)
(* management of the litigation knowledge base, as a state machine.        *)
(*                                                                         *)
(* The relational tables (documents, document_versions, audit_log) hold    *)
(* the COMMITTED rows.  Every ingest_file call runs in its own SQLAlchemy  *)
(* session (autoflush off, PostgreSQL read committed): a query sees the    *)
(* committed rows, pending rows become visible to others at commit, and a  *)
(* unique index makes a conflicting INSERT wait for the other transaction, *)
(* so a flush followed by its commit is observably one atomic step.        *)
(***************************************************************************)
EXTENDS Integers, Sequences, FiniteSets, TLC

\* ------------------------------------------------------------------ bounds
MaxCalls == 3          \* ingest_file calls started over the whole run

MaxGroup == 3          \* documents in a group handed to the selection

MaxChain == 4          \* documents of a stored version chain

MaxRows == 3           \* documents stored when duplicate groups are asked for

MaxVersion == 2        \* version number of the document a new version is made of

\* ------------------------------------------------------- program constants
near_duplicate_threshold == 95000   \* 0.95, scores are scaled by 100000
potential_version_threshold == 95000 \* 0.95 literal in ingest_file
filename_similarity_threshold == 800 \* 0.8, ratios are scaled by 1000
short_text_limit == 100             \* len(text.strip()) < 100 is skipped
long_text_limit == 1000             \* max(len1, len2) > 1000 picks weights
correction_threshold == 990         \* 0.99 on SequenceMatcher ratio * 1000
revision_threshold == 950           \* 0.95 on SequenceMatcher ratio * 1000

canonical_quality_weight == 4       \* 0.4, weights are scaled by 10
canonical_recency_weight == 3       \* 0.3
canonical_completeness_weight == 3  \* 0.3

Procs == {"p1", "p2"}               \* concurrent ingestion requests
Requests == {"c1", "c2"}            \* concurrent set-canonical requests
NULL == 0                           \* SQL NULL / Python None for ids

\* ------------------------------------------------------------ input domain
\* Documents as the canonical selection sees them, without their id.
Profiles ==
  { [processing_status |-> "completed", text_length |-> 1200,
     clean_metadata |-> TRUE, age_days |-> 10, file_size |-> 50000,
     metadata_count |-> 1],
    [processing_status |-> "needs_review", text_length |-> 1200,
     clean_metadata |-> TRUE, age_days |-> 10, file_size |-> 200000,
     metadata_count |-> 2],
    [processing_status |-> "completed", text_length |-> 500,
     clean_metadata |-> FALSE, age_days |-> 100, file_size |-> 2000000,
     metadata_count |-> 2] }

\* A document of a group: a profile with an id.
WithId(profile, id) ==
  [id |-> id, processing_status |-> profile.processing_status,
   text_length |-> profile.text_length,
   clean_metadata |-> profile.clean_metadata, age_days |-> profile.age_days,
   file_size |-> profile.file_size, metadata_count |-> profile.metadata_count]

\* The groups handed to select_canonical_version: lists of one to MaxGroup
\* documents with different ids.
Groups ==
  UNION { {g \in [1..n -> {WithId(pr, id) : pr \in Profiles, id \in 1..MaxGroup}] :
             \A i, j \in 1..n : i # j => g[i].id # g[j].id} :
          n \in 1..MaxGroup }

MissingMatter == "m9"               \* an id no row of table matters has

\* File names are sequences of one-character strings.
Name_abcde_pdf == <<"a", "b", "c", "d", "e", ".", "p", "d", "f">>
Name_ABCDX_pdf == <<"A", "B", "C", "D", "X", ".", "p", "d", "f">>
Name_vwxyz_pdf == <<"v", "w", "x", "y", "z", ".", "p", "d", "f">>
Name_abcde_exe == <<"a", "b", "c", "d", "e", ".", "e", "x", "e">>

\* An uploaded file: its name, its bytes (identified by their SHA-256
\* digest, SHA-256 being collision free on the inputs) and the text the
\* extractor returns for it.
Files ==
  [ f1 |-> [name |-> Name_abcde_pdf, bytes |-> "h1", text |-> "t1"],
    f2 |-> [name |-> Name_ABCDX_pdf, bytes |-> "h2", text |-> "t2"],
    f3 |-> [name |-> Name_vwxyz_pdf, bytes |-> "h3", text |-> "t3"],
    f4 |-> [name |-> Name_abcde_pdf, bytes |-> "h4", text |-> "t4"],
    f5 |-> [name |-> Name_abcde_exe, bytes |-> "h5", text |-> "t0"] ]

FileIds == DOMAIN Files

\* The uploads a caller can hand to ingest_file: every file present at its
\* path, and one path at which no file exists.
Uploads == [file : FileIds, present : {TRUE}]
             \cup {[file |-> "f1", present |-> FALSE]}

\* The arguments of an ingest_file call: any upload into a matter of the
\* given set, and one upload into the matter that does not exist.
CallInputs(existing_matters) ==
  (existing_matters \X Uploads)
    \cup {<<MissingMatter, [file |-> "f1", present |-> TRUE]>>}

\* Extracted texts: "t0" is the empty string, "t4" is shorter than 100
\* characters, "t5" has 500, the others are long documents.
TextLen(t) ==
  CASE t = "t0" -> 0
    [] t = "t1" -> 1200
    [] t = "t2" -> 1210
    [] t = "t3" -> 1190
    [] t = "t4" -> 50
    [] t = "t5" -> 500
    [] OTHER -> 0

\* The texts handed to the similarity function on its own.
Texts == {"t0", "t1", "t2", "t3", "t4", "t5"}

\* The four text metrics for a pair of texts, each scaled by 1000
\* (SequenceMatcher ratio, Levenshtein ratio, word Jaccard, 3-gram cosine).
TextMetrics(a, b) ==
  IF a = b THEN [seq |-> 1000, lev |-> 1000, jac |-> 1000, cos |-> 1000]
  ELSE CASE {a, b} = {"t1", "t2"} ->
              [seq |-> 980, lev |-> 980, jac |-> 960, cos |-> 990]
         [] {a, b} = {"t1", "t3"} ->
              [seq |-> 995, lev |-> 995, jac |-> 980, cos |-> 995]
         [] {a, b} = {"t2", "t3"} ->
              [seq |-> 940, lev |-> 940, jac |-> 900, cos |-> 950]
         [] OTHER ->
              [seq |-> 100, lev |-> 100, jac |-> 50, cos |-> 80]

\* ------------------------------------------------------------------- state
VARIABLES
  matters,            \* ids of the rows of table matters
  documents,          \* committed rows of table documents
  document_versions,  \* committed rows of table document_versions
  audit_log,          \* committed rows of table audit_log
  processed_files,    \* document ids that name a file in processed_dir
  next_uuid,          \* uuid.uuid4() source: the next unused id
  calls,              \* ingest_file calls started so far
  pc,                 \* per request: position inside ingest_file
  call,               \* per request: the arguments of the running call
  local,              \* per request: local variables of ingest_file
  result,             \* per request: the result dict of the last call
  document_group,     \* argument of select_canonical_version
  canonical,          \* id of the document select_canonical_version returned
  metadata_json,      \* committed canonical keys of documents.metadata
  session,            \* per set-canonical request: its ORM session
  similarity_call,    \* a call of _calculate_similarity and what it returned
  walk,               \* a call of get_version_chain or get_current_version
  grouping,           \* a call of find_duplicate_groups and what it returned
  version_call        \* a call of create_new_version and the rows it added

\* The state of canonical selection.
canonical_state == <<document_group, canonical, metadata_json, session>>

vars == <<matters, documents, document_versions, audit_log, processed_files,
          next_uuid, calls, pc, call, local, result, canonical_state,
          similarity_call, walk, grouping, version_call, version_call>>

\* ---------------------------------------------------------- pure functions
LowerChar(c) ==
  CASE c = "A" -> "a" [] c = "B" -> "b" [] c = "C" -> "c"
    [] c = "D" -> "d" [] c = "E" -> "e" [] c = "X" -> "x"
    [] OTHER -> c

\* str.lower()
Lower(s) == [i \in 1..Len(s) |-> LowerChar(s[i])]

\* Index of the last "." of a name, 0 when there is none.
LastDot(s) ==
  LET dots == {i \in 1..Len(s) : s[i] = "."}
  IN  IF dots = {} THEN 0 ELSE CHOOSE i \in dots : \A j \in dots : j <= i

\* pathlib: a name has a suffix when its last "." is neither its first
\* nor its last character.
HasSuffix(s) == LastDot(s) > 1 /\ LastDot(s) < Len(s)

\* Path(name).stem
Stem(s) == IF HasSuffix(s) THEN SubSeq(s, 1, LastDot(s) - 1) ELSE s

\* Path(name).suffix
Suffix(s) == IF HasSuffix(s) THEN SubSeq(s, LastDot(s), Len(s)) ELSE <<>>

RECURSIVE CommonRun(_, _, _, _, _, _)
\* Length of the longest common run a[i..] = b[j..] inside the windows.
CommonRun(a, i, ahi, b, j, bhi) ==
  IF i <= ahi /\ j <= bhi /\ a[i] = b[j]
  THEN 1 + CommonRun(a, i + 1, ahi, b, j + 1, bhi)
  ELSE 0

\* difflib.SequenceMatcher.find_longest_match without junk: the longest
\* matching block, the one starting earliest in a, then earliest in b.
find_longest_match(a, alo, ahi, b, blo, bhi) ==
  LET pairs == (alo..ahi) \X (blo..bhi)
      k(pr) == CommonRun(a, pr[1], ahi, b, pr[2], bhi)
      best  == CHOOSE pr \in pairs :
                 \A qr \in pairs :
                    \/ k(pr) > k(qr)
                    \/ /\ k(pr) = k(qr)
                       /\ \/ pr[1] < qr[1]
                          \/ pr[1] = qr[1] /\ pr[2] <= qr[2]
  IN  [i |-> best[1], j |-> best[2], size |-> k(best)]

RECURSIVE matching_size(_, _, _, _, _, _)
\* Sum of the sizes of SequenceMatcher.get_matching_blocks().
matching_size(a, alo, ahi, b, blo, bhi) ==
  IF alo > ahi \/ blo > bhi THEN 0
  ELSE LET m == find_longest_match(a, alo, ahi, b, blo, bhi)
       IN  IF m.size = 0 THEN 0
           ELSE m.size
                + matching_size(a, alo, m.i - 1, b, blo, m.j - 1)
                + matching_size(a, m.i + m.size, ahi, b, m.j + m.size, bhi)

\* SequenceMatcher(None, a, b).ratio() scaled by 1000: 2*M/T, 1.0 when both
\* sequences are empty.
SequenceMatcherRatio(a, b) ==
  IF Len(a) + Len(b) = 0 THEN 1000
  ELSE (2000 * matching_size(a, 1, Len(a), b, 1, Len(b))) \div (Len(a) + Len(b))

\* IngestionService._compare_filenames
compare_filenames(filename1, filename2) ==
  SequenceMatcherRatio(Lower(Stem(filename1)), Lower(Stem(filename2)))

Min(a, b) == IF a <= b THEN a ELSE b
Max(a, b) == IF a >= b THEN a ELSE b

\* DuplicateDetectionService._calculate_similarity of
\* src/services/duplicate_detection.py (three metrics), scaled by 100000.
services_calculate_similarity(text1, text2, len1, len2) ==
  IF TextLen(text1) = 0 \/ TextLen(text2) = 0 THEN 0
  ELSE LET m == TextMetrics(text1, text2)
           length_ratio == IF Max(len1, len2) > 0
                           THEN (Min(len1, len2) * 1000) \div Max(len1, len2)
                           ELSE 0
       IN  IF Max(len1, len2) > long_text_limit
           THEN 50 * m.seq + 30 * m.lev + 20 * length_ratio
           ELSE 30 * m.seq + 50 * m.lev + 20 * length_ratio

\* Variant: one weight vector for texts of every length.
similarity_weights_one_profile(len1, len2) ==
  [seq |-> 25, lev |-> 30, jac |-> 25, cos |-> 10, len |-> 10]

\* The weights, in percent, of the combined score of
\* src/backend/services/duplicate_detection.py for two texts of the given
\* lengths: SequenceMatcher ratio, Levenshtein ratio, word Jaccard,
\* 3-gram cosine, length ratio.
similarity_weights(len1, len2) ==
  IF Max(len1, len2) > long_text_limit
  THEN [seq |-> 35, lev |-> 20, jac |-> 20, cos |-> 15, len |-> 10]
  ELSE [seq |-> 25, lev |-> 30, jac |-> 25, cos |-> 10, len |-> 10]

\* DuplicateDetectionService._calculate_similarity of
\* src/backend/services/duplicate_detection.py, scaled by 100000
\* (weights in percent times metrics in thousandths).
calculate_similarity(text1, text2, len1, len2) ==
  IF TextLen(text1) = 0 \/ TextLen(text2) = 0 THEN 0
  ELSE LET m == TextMetrics(text1, text2)
           length_ratio == IF Max(len1, len2) > 0
                           THEN (Min(len1, len2) * 1000) \div Max(len1, len2)
                           ELSE 0
           w == similarity_weights(len1, len2)
       IN  w.seq * m.seq + w.lev * m.lev + w.jac * m.jac + w.cos * m.cos
             + w.len * length_ratio

Ext(s) == <<".">> \o s
allowed_extensions ==
  { Ext(<<"p", "d", "f">>), Ext(<<"d", "o", "c", "x">>), Ext(<<"d", "o", "c">>),
    Ext(<<"m", "s", "g">>), Ext(<<"e", "m", "l">>), Ext(<<"t", "x", "t">>),
    Ext(<<"c", "s", "v">>), Ext(<<"x", "l", "s", "x">>), Ext(<<"x", "l", "s">>),
    Ext(<<"j", "p", "g">>), Ext(<<"j", "p", "e", "g">>), Ext(<<"p", "n", "g">>),
    Ext(<<"g", "i", "f">>), Ext(<<"t", "i", "f", "f">>), Ext(<<"b", "m", "p">>) }

\* SecurityCheckService.check_document: the extension test (the uploads
\* modelled are below the size limit and carry no executable header).
check_document(name) == Lower(Suffix(name)) \in allowed_extensions

\* ----------------------------------------------------------------- queries
\* DuplicateDetectionService.find_exact_duplicate: the rows .first() may
\* return.
find_exact_duplicate(file_hash_sha256, matter_id) ==
  {d \in documents : /\ d.file_hash_sha256 = file_hash_sha256
                     /\ d.matter_id = matter_id
                     /\ d.is_current_version}

\* Variant: the candidate query has no matter filter.
find_near_duplicates_any_matter(text, matter_id) ==
  IF TextLen(text) = 0 \/ TextLen(text) < short_text_limit THEN {}
  ELSE LET candidates == {d \in documents :
                            /\ d.is_current_version
                            /\ TextLen(d.extracted_text) > 0}
           score(d) == calculate_similarity(text, d.extracted_text,
                          TextLen(text), TextLen(d.extracted_text))
       IN  {<<d.id, score(d)>> : d \in {c \in candidates :
                                          score(c) >= near_duplicate_threshold}}

\* DuplicateDetectionService.find_near_duplicates: the (document id, score)
\* pairs kept, before sorting.
find_near_duplicates(text, matter_id) ==
  IF TextLen(text) = 0 \/ TextLen(text) < short_text_limit THEN {}
  ELSE LET candidates == {d \in documents :
                            /\ d.matter_id = matter_id
                            /\ d.is_current_version
                            /\ TextLen(d.extracted_text) > 0}
           score(d) == calculate_similarity(text, d.extracted_text,
                          TextLen(text), TextLen(d.extracted_text))
       IN  {<<d.id, score(d)>> : d \in {c \in candidates :
                                          score(c) >= near_duplicate_threshold}}

\* similarities.sort(key=score, reverse=True): the query has no ORDER BY
\* and the sort is stable, so equal scores may come in either order.
SortedByScore(S) ==
  {s \in [1..Cardinality(S) -> S] :
     /\ \A i, j \in 1..Cardinality(S) : i # j => s[i] # s[j]
     /\ \A i, j \in 1..Cardinality(S) : i < j => s[i][2] >= s[j][2]}

DocById(id) == CHOOSE d \in documents : d.id = id

\* DuplicateDetectionService.compare_documents: its similarity_score.
compare_documents(doc1, doc2) ==
  IF TextLen(doc1.extracted_text) > 0 /\ TextLen(doc2.extracted_text) > 0
  THEN calculate_similarity(doc1.extracted_text, doc2.extracted_text,
                            TextLen(doc1.extracted_text),
                            TextLen(doc2.extracted_text))
  ELSE 0

\* Variant: a document joins a group only when it compares at or above
\* the threshold with every member the group has so far.
seed_group_all_members(doc1, later) ==
  LET joined[k \in 0..Len(later)] ==
        IF k = 0 THEN <<doc1>>
        ELSE IF \A i \in 1..Len(joined[k - 1]) :
                  compare_documents(joined[k - 1][i], later[k])
                    >= near_duplicate_threshold
             THEN Append(joined[k - 1], later[k])
             ELSE joined[k - 1]
  IN  joined[Len(later)]

\* CanonicalSelectionService.find_duplicate_groups, the inner loop: the
\* group of doc1 takes every later document not yet in a group whose
\* comparison with doc1 is at or above the threshold.
seed_group(doc1, later) ==
  LET similar(doc2) ==
        compare_documents(doc1, doc2) >= near_duplicate_threshold
  IN  <<doc1>> \o SelectSeq(later, similar)

RECURSIVE build_groups(_)
\* CanonicalSelectionService.find_duplicate_groups, the loop over the
\* query result: the first document not yet in a group starts one, the
\* documents it took are skipped from then on; groups of one are dropped.
build_groups(docs) ==
  IF docs = <<>> THEN <<>>
  ELSE LET doc1 == Head(docs)
           group == seed_group(doc1, Tail(docs))
           taken == {group[i] : i \in 1..Len(group)}
           left(doc2) == doc2 \notin taken
           rest == build_groups(SelectSeq(Tail(docs), left))
       IN  IF Len(group) > 1 THEN <<group>> \o rest ELSE rest

\* The orders in which a query without ORDER BY can return a set of rows.
Orderings(S) ==
  {s \in [1..Cardinality(S) -> S] :
     \A i, j \in 1..Cardinality(S) : i # j => s[i] # s[j]}

\* CanonicalSelectionService.find_duplicate_groups, the query: the current
\* documents of the matter that have text.
current_documents_with_text(matter_id) ==
  {d \in documents : /\ d.matter_id = matter_id
                     /\ d.is_current_version
                     /\ TextLen(d.extracted_text) > 0}

\* CanonicalSelectionService.find_duplicate_groups: the lists of groups it
\* can return for a matter.
find_duplicate_groups(matter_id) ==
  {build_groups(order) :
     order \in Orderings(current_documents_with_text(matter_id))}

\* ------------------------------------------------------ canonical selection
\* What the scoring reads of a document: processing_status, the length of
\* extracted_text, whether metadata_json is non-empty and has no
\* 'extraction_error', the age in days of its latest timestamp, file_size
\* in bytes, and how many of author, title, created_date, tags are set.
\* Sub-scores are scaled by 10, the total by 100.

\* CanonicalSelectionService._calculate_quality_score
calculate_quality_score(doc) ==
  LET status == CASE doc.processing_status = "completed" -> 5
                  [] doc.processing_status = "needs_review" -> 3
                  [] doc.processing_status = "processing" -> 1
                  [] OTHER -> 0
      text == IF doc.text_length > 1000 THEN 3
              ELSE IF doc.text_length > 100 THEN 2
              ELSE IF doc.text_length > 0 THEN 1 ELSE 0
      clean == IF doc.text_length > 0 /\ doc.clean_metadata THEN 2 ELSE 0
  IN  Min(status + text + clean, 10)

\* CanonicalSelectionService._calculate_recency_score
\* (canonical_prefer_latest is on; every row has created_at)
calculate_recency_score(doc) ==
  IF doc.age_days <= 30 THEN 10
  ELSE IF doc.age_days <= 90 THEN 8
  ELSE IF doc.age_days <= 180 THEN 6
  ELSE IF doc.age_days <= 365 THEN 4
  ELSE 2

\* CanonicalSelectionService._calculate_completeness_score
\* (canonical_prefer_larger is on)
calculate_completeness_score(doc) ==
  LET size == IF doc.file_size = 0 THEN 0
              ELSE IF doc.file_size > 10 * 1024 * 1024 THEN 4
              ELSE IF doc.file_size > 1024 * 1024 THEN 3
              ELSE IF doc.file_size > 100 * 1024 THEN 2
              ELSE 1
      text == IF doc.text_length = 0 THEN 0
              ELSE IF doc.text_length > 50000 THEN 4
              ELSE IF doc.text_length > 10000 THEN 3
              ELSE IF doc.text_length > 1000 THEN 2
              ELSE 1
  IN  Min(size + text + Min(doc.metadata_count, 2), 10)

\* CanonicalSelectionService._calculate_canonical_score with the weights
\* of the settings; dividing the weights by their sum (1.0) changes no
\* comparison of two scores.
calculate_canonical_score(doc) ==
  canonical_quality_weight * calculate_quality_score(doc)
    + canonical_recency_weight * calculate_recency_score(doc)
    + canonical_completeness_weight * calculate_completeness_score(doc)

\* Variant: an ascending sort, reversed (equal scores change places).
sort_ascending_reversed(scored_docs) ==
  LET n == Len(scored_docs)
      perms == {f \in [1..n -> 1..n] : \A i, j \in 1..n : i # j => f[i] # f[j]}
      order == CHOOSE f \in perms :
                 \A i, j \in 1..n : i < j =>
                   \/ scored_docs[f[i]][2] > scored_docs[f[j]][2]
                   \/ /\ scored_docs[f[i]][2] = scored_docs[f[j]][2]
                      /\ f[i] > f[j]
  IN  [i \in 1..n |-> scored_docs[order[i]]]

\* scored_docs.sort(key=score, reverse=True): list.sort is stable, also
\* with reverse, so equal scores keep their order.
sort_by_score_reverse(scored_docs) ==
  LET n == Len(scored_docs)
      perms == {f \in [1..n -> 1..n] : \A i, j \in 1..n : i # j => f[i] # f[j]}
      order == CHOOSE f \in perms :
                 \A i, j \in 1..n : i < j =>
                   \/ scored_docs[f[i]][2] > scored_docs[f[j]][2]
                   \/ /\ scored_docs[f[i]][2] = scored_docs[f[j]][2]
                      /\ f[i] < f[j]
  IN  [i \in 1..n |-> scored_docs[order[i]]]

\* CanonicalSelectionService.select_canonical_version for a non-empty
\* group (an empty one raises ValueError).
select_canonical_version(group) ==
  IF Len(group) = 1 THEN group[1]
  ELSE LET scored_docs ==
             [i \in 1..Len(group) |->
                <<group[i], calculate_canonical_score(group[i])>>]
       IN  sort_by_score_reverse(scored_docs)[1][1]

\* The canonical keys of a metadata dict in which none of them is set; every
\* row ingest_file writes has such a dict (never NULL).
NoCanonicalKeys ==
  [is_null |-> FALSE, is_canonical |-> "absent",
   canonical_document_id |-> NULL, canonical_selected_at |-> FALSE]

\* The committed metadata of a document.
Meta(id) ==
  IF id \in DOMAIN metadata_json THEN metadata_json[id] ELSE NoCanonicalKeys

\* File sizes in bytes of the stored files.
FileSize(sha256) ==
  CASE sha256 = "h1" -> 50000
    [] sha256 = "h2" -> 50000
    [] sha256 = "h3" -> 200000
    [] OTHER -> 1000

\* What the scoring reads of a row written by ingest_file: status
\* completed, a metadata dict with ingestion_run_id and no
\* extraction_error, timestamps of the ingestion, title set, author,
\* created_date and tags empty.
CanonicalView(d) ==
  [id |-> d.id, processing_status |-> "completed",
   text_length |-> TextLen(d.extracted_text), clean_metadata |-> TRUE,
   age_days |-> 0, file_size |-> FileSize(d.file_hash_sha256),
   metadata_count |-> 1]

\* A session that has loaded nothing.
IdleSession ==
  [pc |-> "idle", group |-> <<>>, canonical |-> NULL, i |-> 0,
   values |-> [id \in {} |-> NoCanonicalKeys], modified |-> {}]

\* Variant: the column tracks item assignment (a mutable JSON type).
item_assignment_is_tracked(value) == TRUE

\* Whether the loop body of set_canonical_version marks doc.metadata_json
\* as modified for the unit of work.  The column is a plain JSONB: only
\* the assignment doc.metadata_json = {} (made when the value is None) is
\* an attribute set event, item assignment on the loaded dict is not.
marks_modified(value) == value.is_null

\* The dict after the three item assignments of the loop body.
mark_canonical(value, doc_id, canonical_id) ==
  [is_null |-> FALSE,
   is_canonical |-> IF doc_id = canonical_id THEN "true" ELSE "false",
   canonical_document_id |-> canonical_id,
   canonical_selected_at |->
     IF doc_id # canonical_id THEN TRUE ELSE value.canonical_selected_at]

\* ------------------------------------------------------- table constraints
\* Variant: the documents table declared without its unique constraint.
no_unique_file_hash_per_matter(row, rows) == FALSE

\* UniqueConstraint("matter_id", "file_hash_sha256") on documents
violates_unique_file_hash_per_matter(row, rows) ==
  \E d \in rows : /\ d.id # row.id
                  /\ d.matter_id = row.matter_id
                  /\ d.file_hash_sha256 = row.file_hash_sha256

\* UniqueConstraint("document_id", "version_number") on document_versions
violates_unique_version_per_document(row, rows) ==
  \E v \in rows : /\ v.document_id = row.document_id
                  /\ v.version_number = row.version_number

\* CheckConstraint on audit_log.action_type
allowed_action_types ==
  {"create", "update", "delete", "view", "export", "import", "process",
   "extract", "verify", "merge", "link", "unlink"}

violates_check_action_type(row) == row.action_type \notin allowed_action_types

\* ------------------------------------------------------------ row builders
\* The result dict ingest_file starts from.
InitialResult ==
  [success |-> FALSE, document_id |-> NULL, status |-> "pending",
   is_duplicate |-> FALSE, is_new_version |-> FALSE,
   existing_document_id |-> NULL, version_number |-> 1, error |-> "None",
   downstream |-> "pending"]

\* What is remembered of the call a request made before the running one
\* (a history record): its arguments, the id it returned, and whether the
\* environment made a file move of it fail.
NoPrevious ==
  [matter_id |-> MissingMatter, file |-> "f1", present |-> FALSE,
   document_id |-> NULL, storage_fault |-> FALSE]

\* The local variables of ingest_file at entry.  version_error records
\* which exception, if any, the try block of the version path caught;
\* previous is the history record above; retry tells that the caller
\* repeats its last call with the same arguments and no new upload.
InitialLocal ==
  [near_duplicates |-> <<>>, potential_version_parent |-> NULL,
   similarity_score |-> 0, document_id |-> NULL, file_at_source |-> FALSE,
   version_error |-> "None", previous |-> NoPrevious, retry |-> FALSE]

NoCall == [matter_id |-> MissingMatter, file |-> "f1", present |-> FALSE,
           filename |-> <<>>]

\* Variant: the outer except marks the call failed without an error text.
outer_except_without_error(r, error) == [r EXCEPT !.status = "failed"]

\* The outer except of ingest_file: result['error'] = str(e) and
\* result['status'] = 'failed' (after the rollback).
outer_except(r, error) == [r EXCEPT !.error = error, !.status = "failed"]

\* Variant: the new row is stored with is_current_version false.
NewDocument_not_current(document_id, matter_id, filename, sha256_hash, extracted_text) ==
  [id |-> document_id, matter_id |-> matter_id, file_name |-> filename,
   file_hash_sha256 |-> sha256_hash, extracted_text |-> extracted_text,
   version_number |-> 1, is_current_version |-> FALSE,
   parent_document_id |-> NULL]

\* Document(...) of the new-document path of ingest_file; version_number,
\* is_current_version and parent_document_id take their column defaults.
NewDocument(document_id, matter_id, filename, sha256_hash, extracted_text) ==
  [id |-> document_id, matter_id |-> matter_id, file_name |-> filename,
   file_hash_sha256 |-> sha256_hash, extracted_text |-> extracted_text,
   version_number |-> 1, is_current_version |-> TRUE,
   parent_document_id |-> NULL]

\* DocumentVersion(...) of the new-document path of ingest_file
InitialVersion(document_id, sha256_hash) ==
  [document_id |-> document_id, version_number |-> 1,
   file_hash_sha256 |-> sha256_hash, change_type |-> "initial",
   similarity_score |-> 1000, content_changed |-> FALSE]

\* AuditLog(...)
AuditEntry(action_type, resource_id, run_id) ==
  [action_type |-> action_type, resource_id |-> resource_id,
   ingestion_run_id |-> run_id]

\* Variant: the change type is read off the score alone.
determine_change_type_by_score(same_hash, similarity) ==
  IF similarity >= correction_threshold THEN "correction"
  ELSE IF similarity >= revision_threshold THEN "revision"
  ELSE "update"

\* VersionManagementService.create_new_version, "Determine change type".
determine_change_type(same_hash, similarity) ==
  IF same_hash THEN "duplicate"
  ELSE IF similarity >= correction_threshold THEN "correction"
  ELSE IF similarity >= revision_threshold THEN "revision"
  ELSE "update"

\* VersionManagementService.create_new_version: the rows the session holds
\* when the method returns (the update of existing_doc, the history row of
\* the old document, the new document and its history row).
create_new_version(existing_doc, new_text, new_hash_sha256, new_id) ==
  LET similarity ==
        IF /\ TextLen(existing_doc.extracted_text) > 0
           /\ TextLen(new_text) > 0
           /\ new_hash_sha256 # existing_doc.file_hash_sha256
        THEN TextMetrics(existing_doc.extracted_text, new_text).seq
        ELSE 1000
      change_type ==
        determine_change_type(
          new_hash_sha256 = existing_doc.file_hash_sha256, similarity)
      new_version_number == existing_doc.version_number + 1
  IN  [ old_doc |-> [existing_doc EXCEPT !.is_current_version = FALSE],
        old_version |->
          [document_id |-> existing_doc.id,
           version_number |-> existing_doc.version_number,
           file_hash_sha256 |-> existing_doc.file_hash_sha256,
           change_type |-> IF existing_doc.version_number = 1
                           THEN "initial" ELSE "update",
           similarity_score |-> 1000, content_changed |-> FALSE],
        new_doc |->
          [id |-> new_id, matter_id |-> existing_doc.matter_id,
           file_name |-> existing_doc.file_name,
           file_hash_sha256 |-> new_hash_sha256,
           extracted_text |-> new_text,
           version_number |-> new_version_number,
           is_current_version |-> TRUE,
           parent_document_id |-> existing_doc.id],
        new_version |->
          [document_id |-> new_id, version_number |-> new_version_number,
           file_hash_sha256 |-> new_hash_sha256,
           change_type |-> change_type, similarity_score |-> similarity,
           content_changed |->
             (new_hash_sha256 # existing_doc.file_hash_sha256)] ]

\* Variant: the row is written as an upsert on (matter_id,
\* file_hash_sha256): a stored row with the same matter and hash is
\* overwritten in place and becomes current, nothing is raised.
upsert_document(document, rows) ==
  LET same == {d \in rows : /\ d.matter_id = document.matter_id
                            /\ d.file_hash_sha256 = document.file_hash_sha256}
  IN  [raises |-> FALSE,
       rows |-> IF same = {} THEN rows \cup {document}
                ELSE (rows \ same)
                       \cup {[d EXCEPT !.extracted_text = document.extracted_text,
                                       !.file_name = document.file_name,
                                       !.is_current_version = TRUE] : d \in same}]

\* self.db.add(document) and self.db.flush() of the new-document path: a
\* plain INSERT, which raises IntegrityError when the row breaks
\* unique_file_hash_per_matter and otherwise adds the row.
insert_document(document, rows) ==
  [raises |-> violates_unique_file_hash_per_matter(document, rows),
   rows |-> rows \cup {document}]

\* Variant: the rows added to the session stay in the table.
no_rollback(rows, pending) == rows \cup pending

\* self.db.rollback() in the except block of the version path: the table
\* keeps its committed rows, the pending rows of the session are dropped.
rollback(rows, pending) == rows

\* Variant: no table constraint stops the version transaction.
version_flush_never_raises(v, audit_entry) == FALSE

\* The flush inside create_new_version and the commit of the version path
\* raise IntegrityError when a pending row breaks a table constraint.
version_flush_raises(v, audit_entry) ==
  \/ violates_unique_version_per_document(v.old_version, document_versions)
  \/ violates_unique_file_hash_per_matter(v.new_doc, documents)
  \/ violates_unique_version_per_document(v.new_version,
        document_versions \cup {v.old_version})
  \/ violates_check_action_type(audit_entry)

\* Variant: the file name test is left out.
takes_version_path_content_only(filename, near_duplicates) ==
  /\ Len(near_duplicates) > 0
  /\ near_duplicates[1][2] >= potential_version_threshold

\* The version path is taken when the best near-duplicate is a potential
\* version parent and its file name is similar to the new one.
takes_version_path(filename, near_duplicates) ==
  /\ Len(near_duplicates) > 0
  /\ near_duplicates[1][2] >= potential_version_threshold
  /\ compare_filenames(filename, DocById(near_duplicates[1][1]).file_name)
       >= filename_similarity_threshold

\* -------------------------------------------------------------------- Init
\* No call of the similarity function on its own.
NoSimilarityCall ==
  [implementation |-> "none", text1 |-> "t0", text2 |-> "t0", score |-> -1]

\* No call of a chain walk.
NoWalk ==
  [op |-> "none", pc |-> "idle", document_id |-> NULL, doc |-> NULL,
   root_id |-> NULL, versions |-> <<>>, returned |-> NULL]

\* No call of find_duplicate_groups.
NoGrouping == [called |-> FALSE, matter_id |-> "m1", rows |-> <<>>,
               groups |-> <<>>]

\* No call of create_new_version on its own.
NoVersionCall == [called |-> FALSE]

\* No selection has been asked for, no query is running.
InitCanonical ==
  /\ similarity_call = NoSimilarityCall
  /\ walk = NoWalk
  /\ grouping = NoGrouping
  /\ version_call = NoVersionCall
  /\ document_group = <<>>
  /\ canonical = NULL
  /\ metadata_json = [id \in {} |-> NoCanonicalKeys]
  /\ session = [r \in Requests |-> IdleSession]

Init ==
  /\ InitCanonical
  /\ matters = {"m1"}
  /\ documents = {}
  /\ document_versions = {}
  /\ audit_log = {}
  /\ processed_files = {}
  /\ next_uuid = 1
  /\ calls = 0
  /\ pc = [p \in Procs |-> "idle"]
  /\ call = [p \in Procs |-> NoCall]
  /\ local = [p \in Procs |-> InitialLocal]
  /\ result = [p \in Procs |-> InitialResult]

tables == <<documents, document_versions, audit_log>>

\* The state of the ingestion.
ingestion_state == <<matters, tables, processed_files, next_uuid, calls, pc,
                     call, local, result>>

\* ----------------------------------------------------------------- actions
\* ingest_file, entry to the exact-duplicate check: matter lookup, security
\* check, hashing, find_exact_duplicate.
Enter(p, matter_id, up, retry) ==
  /\ pc[p] \in {"idle", "done"}
  /\ calls < MaxCalls
  /\ calls' = calls + 1
  /\   LET file == Files[up.file]
           existing == find_exact_duplicate(file.bytes, matter_id)
           previous ==
             IF pc[p] = "done"
             THEN [matter_id |-> call[p].matter_id, file |-> call[p].file,
                   present |-> call[p].present,
                   document_id |-> result[p].document_id,
                   storage_fault |->
                      \/ result[p].error \in {"storage_error",
                                              "database_error"}
                      \/ local[p].version_error = "storage_error"]
             ELSE NoPrevious
       IN  /\ call' = [call EXCEPT ![p] =
                         [matter_id |-> matter_id, file |-> up.file,
                          present |-> up.present, filename |-> file.name]]
           /\ local' = [local EXCEPT ![p] =
                          [InitialLocal EXCEPT
                             !.file_at_source = up.present,
                             !.previous = previous,
                             !.retry = retry]]
           /\ IF matter_id \notin matters
              THEN /\ result' = [result EXCEPT ![p] =
                        [InitialResult EXCEPT !.error = "matter_not_found"]]
                   /\ pc' = [pc EXCEPT ![p] = "done"]
              ELSE IF ~check_document(file.name)
              THEN /\ result' = [result EXCEPT ![p] =
                        [InitialResult EXCEPT
                           !.error = "security_check_failed",
                           !.status = "security_check_failed"]]
                   /\ pc' = [pc EXCEPT ![p] = "done"]
              ELSE IF ~up.present
              THEN \* compute_file_hashes raises, the outer except runs
                   /\ result' = [result EXCEPT ![p] =
                        outer_except(InitialResult, "file_not_found")]
                   /\ pc' = [pc EXCEPT ![p] = "done"]
              ELSE IF existing # {}
              THEN /\ \E existing_doc \in existing :
                        result' = [result EXCEPT ![p] =
                          [InitialResult EXCEPT
                             !.success = TRUE,
                             !.document_id = existing_doc.id,
                             !.is_duplicate = TRUE,
                             !.existing_document_id = existing_doc.id,
                             !.status = "duplicate",
                             !.version_number = existing_doc.version_number]]
                   /\ pc' = [pc EXCEPT ![p] = "done"]
              ELSE /\ result' = [result EXCEPT ![p] = InitialResult]
                   /\ pc' = [pc EXCEPT ![p] = "near_duplicate_check"]
  /\ UNCHANGED <<canonical_state, similarity_call, walk, grouping, version_call, matters, tables, processed_files, next_uuid>>

\* A request calls ingest_file on a fresh upload.
Begin(p) ==
  \E input \in CallInputs(matters) : Enter(p, input[1], input[2], FALSE)

\* A request whose call has returned repeats it with the same arguments
\* (same matter, same path, no new upload): the file is at its path only
\* if the call did not move it away.
Retry(p) ==
  /\ pc[p] = "done"
  /\ Enter(p, call[p].matter_id,
           [file |-> call[p].file, present |-> local[p].file_at_source],
           TRUE)

\* ingest_file, text extraction to the choice of path: find_near_duplicates,
\* potential version parent, uuid4 for the document id, file name test.
NearDuplicateCheck(p) ==
  /\ pc[p] = "near_duplicate_check"
  /\ LET c == call[p]
         text == Files[c.file].text
         found == IF TextLen(text) > 0
                  THEN find_near_duplicates(text, c.matter_id) ELSE {}
     IN  \E near_duplicates \in SortedByScore(found) :
           LET has_parent == /\ Len(near_duplicates) > 0
                             /\ near_duplicates[1][2]
                                  >= potential_version_threshold
           IN  /\ local' = [local EXCEPT ![p] =
                     [@ EXCEPT
                        !.near_duplicates = near_duplicates,
                        !.similarity_score =
                           IF Len(near_duplicates) > 0
                           THEN near_duplicates[1][2] ELSE 0,
                        !.potential_version_parent =
                           IF has_parent THEN near_duplicates[1][1] ELSE NULL,
                        !.document_id = next_uuid]]
               /\ pc' = [pc EXCEPT ![p] =
                     IF takes_version_path(c.filename, near_duplicates)
                     THEN "version_path" ELSE "new_document_path"]
  /\ next_uuid' = next_uuid + 1
  /\ UNCHANGED <<canonical_state, similarity_call, walk, grouping, version_call, matters, tables, processed_files, calls, call, result>>

\* ingest_file, the try block of the new-version path: move_to_processed,
\* create_new_version (with its flush), audit entry, commit; on an
\* exception rollback and fall through to the new-document path.
VersionPath(p) ==
  /\ pc[p] = "version_path"
  /\ \E move_ok \in BOOLEAN :
       LET c == call[p]
           l == local[p]
           file == Files[c.file]
           existing_doc == DocById(l.potential_version_parent)
           v == create_new_version(existing_doc, file.text, file.bytes,
                                   next_uuid)
           audit_entry == AuditEntry("version_created", v.new_doc.id, p)
       IN  IF ~move_ok
           THEN \* shutil.move raised: nothing moved, nothing pending
                /\ local' = [local EXCEPT ![p].version_error = "storage_error"]
                /\ pc' = [pc EXCEPT ![p] = "new_document_path"]
                /\ UNCHANGED <<tables, processed_files, next_uuid, result>>
           ELSE /\ processed_files' = processed_files \cup {l.document_id}
                /\ next_uuid' = next_uuid + 1
                /\ IF version_flush_raises(v, audit_entry)
                   THEN \* except: self.db.rollback()
                        /\ local' = [local EXCEPT ![p] =
                              [@ EXCEPT !.file_at_source = FALSE,
                                        !.version_error = "integrity_error"]]
                        /\ pc' = [pc EXCEPT ![p] = "new_document_path"]
                        /\ documents' = rollback(documents, {v.new_doc})
                        /\ document_versions' =
                              rollback(document_versions,
                                       {v.old_version, v.new_version})
                        /\ UNCHANGED <<audit_log, result>>
                   ELSE /\ documents' =
                              (documents \ {d \in documents :
                                              d.id = existing_doc.id})
                                \cup {v.old_doc, v.new_doc}
                        /\ document_versions' =
                              document_versions
                                \cup {v.old_version, v.new_version}
                        /\ audit_log' = audit_log \cup {audit_entry}
                        /\ local' = [local EXCEPT
                                       ![p].file_at_source = FALSE]
                        /\ \E downstream_ok \in BOOLEAN :
                             result' = [result EXCEPT ![p] =
                               [@ EXCEPT
                                  !.success = TRUE,
                                  !.document_id = v.new_doc.id,
                                  !.is_new_version = TRUE,
                                  !.existing_document_id = existing_doc.id,
                                  !.status = "version_created",
                                  !.version_number = v.new_doc.version_number,
                                  !.downstream =
                                     IF downstream_ok THEN "completed"
                                     ELSE "failed"]]
                        /\ pc' = [pc EXCEPT ![p] = "done"]
  /\ UNCHANGED <<canonical_state, similarity_call, walk, grouping, version_call, matters, calls, call>>

\* ingest_file, the new-document path up to its commit: move_to_processed,
\* Document, flush, DocumentVersion, AuditLog, commit; an exception (the
\* move failing, a constraint violated) reaches the outer except
\* (rollback, status failed).  The moved file is not moved back.
NewDocumentPath(p) ==
  /\ pc[p] = "new_document_path"
  /\ \E move_ok \in BOOLEAN :
       LET c == call[p]
           l == local[p]
           file == Files[c.file]
           document == NewDocument(l.document_id, c.matter_id, c.filename,
                                   file.bytes, file.text)
           version == InitialVersion(l.document_id, file.bytes)
           audit_entry == AuditEntry("import", l.document_id, p)
           failed(error) ==
             /\ result' = [result EXCEPT ![p] = outer_except(@, error)]
             /\ pc' = [pc EXCEPT ![p] = "done"]
             /\ UNCHANGED tables
       IN  IF ~l.file_at_source
           THEN \* the source file is gone: shutil.move raises
                /\ failed("file_not_found")
                /\ UNCHANGED <<processed_files, local>>
           ELSE IF ~move_ok
           THEN /\ failed("storage_error")
                /\ UNCHANGED <<processed_files, local>>
           ELSE /\ processed_files' = processed_files \cup {l.document_id}
                /\ local' = [local EXCEPT ![p].file_at_source = FALSE]
                /\ IF \/ insert_document(document, documents).raises
                      \/ violates_unique_version_per_document(version,
                                                        document_versions)
                      \/ violates_check_action_type(audit_entry)
                   THEN failed("integrity_error")
                   ELSE /\ documents' =
                              insert_document(document, documents).rows
                        /\ document_versions' =
                              document_versions \cup {version}
                        /\ audit_log' = audit_log \cup {audit_entry}
                        /\ pc' = [pc EXCEPT ![p] = "post_processing"]
                        /\ UNCHANGED result
  /\ UNCHANGED <<canonical_state, similarity_call, walk, grouping, version_call, matters, next_uuid, calls, call>>

\* ingest_file, the new-document path when the database fails: the file
\* has been moved, the flush or the commit raises OperationalError, the
\* outer except rolls back and sets status failed.
DatabaseFailure(p) ==
  /\ pc[p] = "new_document_path"
  /\ local[p].file_at_source
  /\ processed_files' = processed_files \cup {local[p].document_id}
  /\ local' = [local EXCEPT ![p].file_at_source = FALSE]
  /\ result' = [result EXCEPT ![p] = outer_except(@, "database_error")]
  /\ pc' = [pc EXCEPT ![p] = "done"]
  /\ UNCHANGED <<canonical_state, similarity_call, walk, grouping, version_call, matters, tables, next_uuid, calls, call>>

\* ingest_file, the new-document path when the write of the audit record
\* fails: the file has been moved, the Document has been flushed, the
\* AuditLog row is part of the same transaction, so the exception of its
\* INSERT at commit reaches the outer except (rollback, status failed).
AuditFailure(p) ==
  /\ pc[p] = "new_document_path"
  /\ local[p].file_at_source
  /\ LET c == call[p]
         document == NewDocument(local[p].document_id, c.matter_id,
                                 c.filename, Files[c.file].bytes,
                                 Files[c.file].text)
     IN  ~violates_unique_file_hash_per_matter(document, documents)
  /\ processed_files' = processed_files \cup {local[p].document_id}
  /\ local' = [local EXCEPT ![p].file_at_source = FALSE]
  /\ result' = [result EXCEPT ![p] = outer_except(@, "audit_error")]
  /\ pc' = [pc EXCEPT ![p] = "done"]
  /\ UNCHANGED <<canonical_state, similarity_call, walk, grouping, version_call, matters, tables, next_uuid, calls, call>>

\* Variant: an exception of indexing or extraction reaches the outer
\* except of ingest_file.
completed_result_unless_downstream_fails(r, document_id, downstream_ok) ==
  IF downstream_ok
  THEN [r EXCEPT !.success = TRUE, !.document_id = document_id,
                 !.status = "completed", !.version_number = 1,
                 !.downstream = "completed"]
  ELSE [r EXCEPT !.error = "downstream_error", !.status = "failed",
                 !.downstream = "failed"]

\* The result dict at the end of the new-document path: the except blocks
\* around indexing, fact extraction and entity extraction only record the
\* failure (downstream is the sub-status), then success, document_id,
\* status and version_number are set.
completed_result(r, document_id, downstream_ok) ==
  [r EXCEPT !.success = TRUE, !.document_id = document_id,
            !.status = "completed", !.version_number = 1,
            !.downstream = IF downstream_ok THEN "completed" ELSE "failed"]

\* ingest_file after the commit of the new document: indexing, fact and
\* entity extraction (their failures are caught), then the final result.
PostProcessing(p) ==
  /\ pc[p] = "post_processing"
  /\ \E downstream_ok \in BOOLEAN :
       result' = [result EXCEPT ![p] =
         completed_result(@, local[p].document_id, downstream_ok)]
  /\ pc' = [pc EXCEPT ![p] = "done"]
  /\ UNCHANGED <<canonical_state, similarity_call, walk, grouping, version_call, matters, tables, processed_files, next_uuid, calls, call,
                 local>>

Next ==
  \E p \in Procs :
    \/ Begin(p)
    \/ NearDuplicateCheck(p)
    \/ VersionPath(p)
    \/ NewDocumentPath(p)
    \/ PostProcessing(p)

Spec == Init /\ [][Next]_vars

\* One request at a time, ingesting into either of two matters.
InitMatters ==
  /\ InitCanonical
  /\ matters = {"m1", "m2"}
  /\ documents = {}
  /\ document_versions = {}
  /\ audit_log = {}
  /\ processed_files = {}
  /\ next_uuid = 1
  /\ calls = 0
  /\ pc = [p \in Procs |-> "idle"]
  /\ call = [p \in Procs |-> NoCall]
  /\ local = [p \in Procs |-> InitialLocal]
  /\ result = [p \in Procs |-> InitialResult]

NextMatters ==
  \E p \in {"p1"} :
    \/ Begin(p)
    \/ NearDuplicateCheck(p)
    \/ VersionPath(p)
    \/ NewDocumentPath(p)
    \/ PostProcessing(p)

SpecMatters == InitMatters /\ [][NextMatters]_vars

\* select_canonical_version applied to a group of documents.
InitSelect ==
  /\ similarity_call = NoSimilarityCall
  /\ walk = NoWalk
  /\ grouping = NoGrouping
  /\ version_call = NoVersionCall
  /\ document_group \in Groups
  /\ canonical = NULL
  /\ metadata_json = [id \in {} |-> NoCanonicalKeys]
  /\ session = [r \in Requests |-> IdleSession]
  /\ matters = {"m1"}
  /\ documents = {}
  /\ document_versions = {}
  /\ audit_log = {}
  /\ processed_files = {}
  /\ next_uuid = 1
  /\ calls = 0
  /\ pc = [p \in Procs |-> "idle"]
  /\ call = [p \in Procs |-> NoCall]
  /\ local = [p \in Procs |-> InitialLocal]
  /\ result = [p \in Procs |-> InitialResult]

SelectCanonical ==
  /\ canonical = NULL
  /\ Len(document_group) > 0
  /\ canonical' = select_canonical_version(document_group).id
  /\ UNCHANGED <<document_group, metadata_json, session, similarity_call,
                 walk, grouping, version_call, ingestion_state>>

NextSelect == SelectCanonical

SpecSelect == InitSelect /\ [][NextSelect]_vars

\* ---------------------------------------------------- canonical group write

\* A request uploads one of the three files with near-identical texts.
UploadSimilar(p) ==
  \E f \in {"f1", "f2", "f3"} :
    Enter(p, "m1", [file |-> f, present |-> TRUE], FALSE)

\* set_group_canonical without document_id: find_duplicate_groups, the
\* group picked by group_id, and select_canonical_version at the start of
\* set_canonical_version.  The session holds the rows as loaded.
SetCanonicalBegin(r) ==
  /\ session[r].pc \in {"idle", "returned", "aborted", "ensured", "raised"}
  /\ \E M \in matters :
       \E groups \in find_duplicate_groups(M) :
         \E group_id \in 1..Len(groups) :
           LET group == groups[group_id]
               ids == {group[i].id : i \in 1..Len(group)}
               winner == select_canonical_version(
                           [i \in 1..Len(group) |-> CanonicalView(group[i])])
           IN  session' = [session EXCEPT ![r] =
                 [pc |-> "loop",
                  group |-> [i \in 1..Len(group) |-> group[i].id],
                  canonical |-> winner.id, i |-> 1,
                  values |-> [id \in ids |-> Meta(id)],
                  modified |-> {}]]
  /\ UNCHANGED <<document_group, canonical, metadata_json, similarity_call,
                 walk, grouping, version_call, ingestion_state>>

\* ensure_canonical_version(document_id): a document that is in no
\* duplicate group is returned as it is; for a document in a group the
\* test for an existing canonical member reads d.metadata, which on a
\* mapped class is the MetaData of the declarative base and has no get():
\* the call raises AttributeError before anything is written.
EnsureCanonicalVersion(r) ==
  /\ session[r].pc \in {"idle", "returned", "aborted", "ensured", "raised"}
  /\ \E doc \in documents :
       \E groups \in find_duplicate_groups(doc.matter_id) :
         LET in_group == \E g \in 1..Len(groups) :
                           \E i \in 1..Len(groups[g]) : groups[g][i].id = doc.id
         IN  session' = [session EXCEPT ![r] =
               [IdleSession EXCEPT
                  !.pc = IF in_group THEN "raised" ELSE "ensured"]]
  /\ UNCHANGED <<document_group, canonical, metadata_json, similarity_call,
                 walk, grouping, version_call, ingestion_state>>

\* set_canonical_version, one pass of the loop over the group.
MarkMember(r) ==
  /\ session[r].pc = "loop"
  /\ session[r].i <= Len(session[r].group)
  /\ LET ses == session[r]
         doc_id == ses.group[ses.i]
         value == ses.values[doc_id]
     IN  session' = [session EXCEPT ![r] =
           [ses EXCEPT
              !.values[doc_id] = mark_canonical(value, doc_id, ses.canonical),
              !.modified = IF marks_modified(value)
                           THEN @ \cup {doc_id} ELSE @,
              !.i = @ + 1]]
  /\ UNCHANGED <<document_group, canonical, metadata_json, similarity_call,
                 walk, grouping, version_call, ingestion_state>>

\* The request dies inside the loop: get_db closes the session, nothing
\* has been flushed.
AbortWrite(r) ==
  /\ session[r].pc = "loop"
  /\ session[r].i <= Len(session[r].group)
  /\ session' = [session EXCEPT ![r] = [IdleSession EXCEPT !.pc = "aborted"]]
  /\ UNCHANGED <<document_group, canonical, metadata_json, similarity_call,
                 walk, grouping, version_call, ingestion_state>>

\* set_canonical_version, self.db.commit(): the rows marked as modified
\* are written in one transaction; commit expires the loaded rows, so what
\* the caller reads afterwards is the committed value.
CommitWrite(r) ==
  /\ session[r].pc = "loop"
  /\ session[r].i > Len(session[r].group)
  /\ metadata_json' =
       [id \in DOMAIN metadata_json \cup session[r].modified |->
          IF id \in session[r].modified THEN session[r].values[id]
          ELSE metadata_json[id]]
  /\ session' = [session EXCEPT ![r] =
       [@ EXCEPT !.pc = "returned",
                 !.values = [id \in {} |-> NoCanonicalKeys],
                 !.modified = {}]]
  /\ UNCHANGED <<document_group, canonical, similarity_call, walk, grouping, version_call,
                 ingestion_state>>

NextCanonical ==
  \/ \E p \in {"p1"} :
       \/ UploadSimilar(p)
       \/ NearDuplicateCheck(p)
       \/ VersionPath(p)
       \/ NewDocumentPath(p)
       \/ PostProcessing(p)
  \/ \E r \in Requests :
       \/ SetCanonicalBegin(r)
       \/ EnsureCanonicalVersion(r)
       \/ MarkMember(r)
       \/ AbortWrite(r)
       \/ CommitWrite(r)

SpecCanonical == Init /\ [][NextCanonical]_vars

\* ------------------------------------------- the similarity function alone
\* _calculate_similarity of either module, about to be called on two texts
\* with their lengths.
InitSimilarity ==
  /\ similarity_call \in
       [implementation : {"backend", "services"}, text1 : Texts,
        text2 : Texts, score : {-1}]
  /\ walk = NoWalk
  /\ grouping = NoGrouping
  /\ version_call = NoVersionCall
  /\ document_group = <<>>
  /\ canonical = NULL
  /\ metadata_json = [id \in {} |-> NoCanonicalKeys]
  /\ session = [r \in Requests |-> IdleSession]
  /\ matters = {"m1"}
  /\ documents = {}
  /\ document_versions = {}
  /\ audit_log = {}
  /\ processed_files = {}
  /\ next_uuid = 1
  /\ calls = 0
  /\ pc = [p \in Procs |-> "idle"]
  /\ call = [p \in Procs |-> NoCall]
  /\ local = [p \in Procs |-> InitialLocal]
  /\ result = [p \in Procs |-> InitialResult]

CalculateSimilarity ==
  /\ similarity_call.score = -1
  /\ similarity_call.implementation # "none"
  /\ LET c == similarity_call
     IN  similarity_call' =
           [c EXCEPT !.score =
              IF c.implementation = "backend"
              THEN calculate_similarity(c.text1, c.text2, TextLen(c.text1),
                                        TextLen(c.text2))
              ELSE services_calculate_similarity(c.text1, c.text2,
                      TextLen(c.text1), TextLen(c.text2))]
  /\ UNCHANGED <<canonical_state, walk, grouping, version_call, ingestion_state>>

NextSimilarity == CalculateSimilarity

SpecSimilarity == InitSimilarity /\ [][NextSimilarity]_vars

\* One request at a time, with a database that can fail and a caller that
\* repeats its calls.
NextFaults ==
  \E p \in {"p1"} :
    \/ Begin(p)
    \/ Retry(p)
    \/ NearDuplicateCheck(p)
    \/ VersionPath(p)
    \/ NewDocumentPath(p)
    \/ DatabaseFailure(p)
    \/ AuditFailure(p)
    \/ PostProcessing(p)

SpecFaults == Init /\ [][NextFaults]_vars

\* ------------------------------------------------------------ chain walks
RECURSIVE walk_forward(_)
\* VersionManagementService.get_version_chain, the forward loop from a
\* document: every list the loop can build (.first() may pick any child
\* with the next version number).
walk_forward(current) ==
  LET children == {d \in documents :
                     /\ d.parent_document_id = current.id
                     /\ d.version_number = current.version_number + 1}
  IN  IF children = {} THEN {<<current>>}
      ELSE UNION {{<<current>> \o rest : rest \in walk_forward(child)} :
                    child \in children}

RECURSIVE walk_to_root(_)
\* VersionManagementService.get_version_chain, the loop to the root: the
\* root reached from a document, NULL when a parent row is missing.  The
\* loop ends on tables whose parent pointers have no cycle.
walk_to_root(doc) ==
  IF doc.parent_document_id = NULL THEN doc.id
  ELSE IF \E d \in documents : d.id = doc.parent_document_id
       THEN walk_to_root(DocById(doc.parent_document_id))
       ELSE NULL

\* VersionManagementService.get_version_chain: the lists it can return.
get_version_chain(document_id) ==
  IF ~\E d \in documents : d.id = document_id THEN {<<>>}
  ELSE LET root == walk_to_root(DocById(document_id))
       IN  IF root = NULL THEN {<<>>} ELSE walk_forward(DocById(root))

\* The documents of the version chain a document belongs to.
ChainOf(doc) ==
  {d \in documents : walk_to_root(d) = walk_to_root(doc)}

\* ---------------------------------------------------- auxiliary predicates
\* The call of request p got past the matter lookup, the security check
\* and the hashing: the matter exists, the file is there and is allowed.
ValidInput(c) ==
  /\ c.matter_id \in matters
  /\ c.present
  /\ check_document(Files[c.file].name)

\* Request p has entered the try block of the new-version path.
TookVersionPath(p) ==
  \/ pc[p] = "version_path"
  \/ local[p].version_error # "None"
  \/ result[p].status = "version_created"

\* The environment made neither a file move nor the database fail during
\* the running call of p.
NoStorageFault(p) ==
  /\ local[p].version_error # "storage_error"
  /\ result[p].error \notin {"storage_error", "database_error"}

CurrentWithHash(matter_id, sha256) ==
  {d \in documents : /\ d.matter_id = matter_id
                     /\ d.file_hash_sha256 = sha256
                     /\ d.is_current_version}

\* The finished or running call of p ingests a version candidate: its best
\* near-duplicate scores at least 0.95 and the file name stems have a
\* sequence ratio of at least 0.8.
VersionCandidate(p) ==
  LET nd == local[p].near_duplicates
  IN  /\ local[p].document_id # NULL
      /\ Len(nd) > 0
      /\ nd[1][2] >= 95000
      /\ compare_filenames(call[p].filename, DocById(nd[1][1]).file_name)
           >= 800

\* ------------------------------------------------------------------ claims

\* C1: in every reachable state, whatever the interleaving of concurrent
\* ingest_file calls, no two documents of one matter that both have
\* is_current_version = true carry the same file_hash_sha256.
C1_UniqueCurrentHash ==
  \A d1, d2 \in documents :
    ( /\ d1.id # d2.id
      /\ d1.matter_id = d2.matter_id
      /\ d1.is_current_version
      /\ d2.is_current_version )
    => d1.file_hash_sha256 # d2.file_hash_sha256

\* C1 witness: two calls raced on the same bytes; one committed its
\* document and the other was stopped by the constraint.
C1_Witness ==
  \E p \in Procs :
    /\ pc[p] = "done"
    /\ result[p].error = "integrity_error"
    /\ CurrentWithHash(call[p].matter_id, Files[call[p].file].bytes) # {}

\* C2 (as claimed): when a request ingests the same bytes into the same
\* matter twice in a row, with no file move failing, the second call ends
\* with status duplicate, both calls return the same document id, and the
\* matter holds exactly one current document with that hash.
C2_Claim ==
  \A p \in Procs :
    ( /\ pc[p] = "done"
      /\ ValidInput(call[p])
      /\ local[p].previous.matter_id = call[p].matter_id
      /\ local[p].previous.file = call[p].file
      /\ local[p].previous.present
      /\ ~local[p].previous.storage_fault
      /\ NoStorageFault(p) )
    => /\ result[p].status = "duplicate"
       /\ result[p].document_id # NULL
       /\ result[p].document_id = local[p].previous.document_id
       /\ Cardinality(CurrentWithHash(call[p].matter_id,
                                      Files[call[p].file].bytes)) = 1

\* C3: every version chain has the version numbers 1..n, exactly one
\* member with is_current_version = true, and that member has version n.
\* It holds in every reachable state, so also after any sequence of calls
\* that do not overlap.
C3_ChainsWellFormed ==
  \A d \in documents :
    LET chain == ChainOf(d)
        n == Cardinality(chain)
    IN  /\ {c.version_number : c \in chain} = 1..n
        /\ Cardinality({c \in chain : c.is_current_version}) = 1
        /\ \A c \in chain : c.is_current_version => c.version_number = n

\* C3 witness: all calls have returned, one of them went through the
\* version path and fell through, and the matter holds several documents.
C3_Witness ==
  /\ Cardinality(documents) >= 2
  /\ \A p \in Procs : pc[p] \in {"idle", "done"}
  /\ \E p \in Procs : pc[p] = "done" /\ local[p].version_error # "None"

\* C4: no interleaving of calls that chose the same version parent leaves
\* a chain with two current members, or a parent with two children that
\* carry the same version_number.
C4_NoForkedChain ==
  \A d1, d2 \in documents :
    d1.id # d2.id =>
      /\ ~( /\ walk_to_root(d1) = walk_to_root(d2)
            /\ d1.is_current_version
            /\ d2.is_current_version )
      /\ ~( /\ d1.parent_document_id # NULL
            /\ d1.parent_document_id = d2.parent_document_id
            /\ d1.version_number = d2.version_number )

\* C4 witness: two overlapping calls hold the same version parent; one has
\* made its version attempt, the other is about to.
C4_Witness ==
  \E p, q \in Procs :
    /\ p # q
    /\ pc[p] = "version_path"
    /\ pc[q] = "new_document_path"
    /\ local[q].version_error = "integrity_error"
    /\ local[p].potential_version_parent # NULL
    /\ local[p].potential_version_parent = local[q].potential_version_parent

\* C5 (as claimed): a call that ingests a version candidate, with no file
\* move failing, ends with status version_created, and get_version_chain
\* of its document then lists the versions 1, 2, ... in ascending order
\* with exactly the last one current.
C5_Claim ==
  \A p \in Procs :
    (pc[p] = "done" /\ VersionCandidate(p) /\ NoStorageFault(p))
    => /\ result[p].status = "version_created"
       /\ \A chain \in get_version_chain(result[p].document_id) :
            /\ Len(chain) >= 2
            /\ \A i \in 1..Len(chain) :
                 /\ chain[i].version_number = i
                 /\ chain[i].is_current_version <=> (i = Len(chain))

\* C6 (as claimed): once a version candidate of D1 has been ingested, D1
\* is superseded by a new version D2; and a copy of the file of a
\* superseded D1 is answered with D1's id and status duplicate, the call
\* getting no further than the exact-duplicate check (it adds no row).
C6_Claim ==
  /\ \A p \in Procs :
       (pc[p] = "done" /\ VersionCandidate(p) /\ NoStorageFault(p))
       => LET D1 == DocById(local[p].potential_version_parent)
          IN  /\ ~D1.is_current_version
              /\ \E D2 \in documents :
                   /\ D2.parent_document_id = D1.id
                   /\ D2.is_current_version
  /\ \A p \in Procs :
       \A D1 \in documents :
         ( /\ pc[p] = "done"
           /\ ValidInput(call[p])
           /\ D1.matter_id = call[p].matter_id
           /\ D1.file_hash_sha256 = Files[call[p].file].bytes
           /\ ~D1.is_current_version )
         => /\ result[p].status = "duplicate"
            /\ result[p].document_id = D1.id
            /\ local[p].document_id = NULL

\* C7: a call enters the new-version path exactly when its highest-scoring
\* near-duplicate scores at least 0.95 and the sequence ratio of the two
\* file name stems is at least 0.8; otherwise it takes the new-document
\* path and the matched document stays current.
C7_PathChoice ==
  \A p \in Procs :
    local[p].document_id # NULL =>
      LET nd == local[p].near_duplicates
          is_version ==
            /\ Len(nd) > 0
            /\ nd[1][2] >= 95000
            /\ compare_filenames(call[p].filename,
                                 DocById(nd[1][1]).file_name) >= 800
      IN  /\ \A i \in 1..Len(nd) : nd[1][2] >= nd[i][2]
          /\ TookVersionPath(p) <=> is_version
          /\ ~is_version =>
               /\ pc[p] \in {"new_document_path", "post_processing", "done"}
               /\ Len(nd) > 0 => DocById(nd[1][1]).is_current_version

\* C7 witness: one call is on the version path while another, whose text
\* has a near-duplicate under a dissimilar file name, is on the
\* new-document path.
C7_Witness ==
  \E p, q \in Procs :
    /\ TookVersionPath(p)
    /\ local[q].document_id # NULL
    /\ ~TookVersionPath(q)
    /\ Len(local[q].near_duplicates) > 0

\* C8 (as claimed): when the version attempt of a call raised, and neither
\* the move nor the database failed on the new-document path, the call ends with
\* success, status completed and the document id generated beforehand.
C8_Claim ==
  \A p \in Procs :
    ( /\ pc[p] = "done"
      /\ local[p].version_error # "None"
      /\ result[p].error \notin {"storage_error", "database_error"} )
    => /\ result[p].success
       /\ result[p].status = "completed"
       /\ result[p].document_id = local[p].document_id

\* C9 (as claimed): a call that got as far as inserting its document while
\* another document with the same matter and hash had been committed ends
\* successfully with the id of that document.
C9_Claim ==
  \A p \in Procs :
    \A d \in documents :
      ( /\ pc[p] = "done"
        /\ ValidInput(call[p])
        /\ local[p].document_id # NULL
        /\ local[p].version_error = "None"
        /\ NoStorageFault(p)
        /\ ~local[p].file_at_source
        /\ d.id # local[p].document_id
        /\ d.matter_id = call[p].matter_id
        /\ d.file_hash_sha256 = Files[call[p].file].bytes )
      => /\ result[p].success
         /\ result[p].document_id = d.id

\* C10 (as claimed): a call whose matter does not exist or whose file is
\* missing ends with success false, status failed and an error, having
\* generated no document id, moved no file and so committed no row.
C10_Claim ==
  \A p \in Procs :
    ( /\ pc[p] = "done"
      /\ \/ call[p].matter_id \notin matters
         \/ ~call[p].present )
    => /\ ~result[p].success
       /\ result[p].status = "failed"
       /\ result[p].error # "None"
       /\ local[p].document_id = NULL
       /\ local[p].file_at_source = call[p].present

\* A storage write of the new-document path failed in the finished call of
\* p: the file move, or the flush or commit of the rows.
WriteFailed(p) ==
  /\ pc[p] = "done"
  /\ result[p].error \in {"storage_error", "database_error"}

\* The rows and files that carry a document id.
RowsOf(document_id) ==
  {d \in documents : d.id = document_id}
    \cup {v \in document_versions : v.document_id = document_id}
    \cup {a \in audit_log : a.resource_id = document_id}

\* C11 (as claimed): a call in which a storage write failed ends with
\* status failed and an error message and has committed no row; and when
\* the caller then repeats the call with the same arguments, the file is
\* still found at its path.
C11_Claim ==
  \A p \in Procs :
    /\ WriteFailed(p) =>
         /\ ~result[p].success
         /\ result[p].status = "failed"
         /\ RowsOf(local[p].document_id) = {}
    /\ ( /\ pc[p] = "done"
         /\ local[p].retry
         /\ local[p].previous.present
         /\ local[p].previous.storage_fault
         /\ local[p].previous.document_id = NULL )
       => result[p].error # "file_not_found"

\* C12: a call whose indexing, fact extraction or entity extraction failed
\* after the commit of its Document and DocumentVersion returns success
\* with the id of that document, and both rows are still in the tables.
C12_DownstreamNonFatal ==
  \A p \in Procs :
    (pc[p] = "done" /\ result[p].downstream = "failed")
    => /\ result[p].success
       /\ result[p].error = "None"
       /\ result[p].document_id = local[p].document_id
       /\ \E d \in documents : d.id = result[p].document_id
       /\ \E v \in document_versions :
            v.document_id = result[p].document_id

\* C12 witness: a call has returned completed although its downstream
\* processing failed.
C12_Witness ==
  \E p \in Procs :
    /\ pc[p] = "done"
    /\ result[p].status = "completed"
    /\ result[p].downstream = "failed"

\* The positions of a call from which one of its steps leads on; the
\* version path needs the row of its version parent.
CanStep(p) ==
  /\ pc[p] \in {"near_duplicate_check", "version_path", "new_document_path",
                "post_processing"}
  /\ pc[p] = "version_path" =>
       \E d \in documents : d.id = local[p].potential_version_parent

\* C13: a call that has been entered is, until it returns, at a position
\* from which its next step leads on (no step leaves it without a
\* result), and the result it returns has the fields of the result dict,
\* with success true exactly when document_id is set and error is null,
\* and success false exactly when an error is set.
C13_StructuredResult ==
  \A p \in Procs :
    /\ pc[p] \notin {"idle", "done"} => CanStep(p)
    /\ DOMAIN result[p] = DOMAIN InitialResult
    /\ pc[p] = "done" =>
         /\ result[p].success <=>
              (result[p].document_id # NULL /\ result[p].error = "None")
         /\ ~result[p].success <=> result[p].error # "None"

\* C13 witness: one call has returned failed from the outer except and
\* another has returned a document.
C13_Witness ==
  \E p, q \in Procs :
    /\ pc[p] = "done" /\ result[p].status = "failed"
    /\ pc[q] = "done" /\ result[q].success

\* C14: in a call into matter M the document returned as exact duplicate,
\* every near-duplicate candidate and the version parent are documents of
\* M, and every group of find_duplicate_groups(M) holds documents of M
\* only, also when another matter holds the same bytes or the same text.
C14_MatterIsolation ==
  /\ \A p \in Procs :
       LET M == call[p].matter_id
           nd == local[p].near_duplicates
       IN  /\ result[p].status = "duplicate" =>
                DocById(result[p].document_id).matter_id = M
           /\ \A i \in 1..Len(nd) : DocById(nd[i][1]).matter_id = M
           /\ local[p].potential_version_parent # NULL =>
                DocById(local[p].potential_version_parent).matter_id = M
  /\ \A M \in matters :
       \A groups \in find_duplicate_groups(M) :
         \A g \in 1..Len(groups) :
           \A i \in 1..Len(groups[g]) : groups[g][i].matter_id = M

\* C14 witness: a call into one matter found a near-duplicate there while
\* the other matter holds a document with the same text as that call's
\* file, and the matter has a duplicate group.
C14_Witness ==
  \E p \in Procs :
    /\ pc[p] = "done"
    /\ Len(local[p].near_duplicates) > 0
    /\ \E d \in documents :
         /\ d.matter_id # call[p].matter_id
         /\ compare_documents(d, DocById(local[p].near_duplicates[1][1]))
              >= near_duplicate_threshold
    /\ \E groups \in find_duplicate_groups(call[p].matter_id) :
         Len(groups) > 0

\* C17: the document select_canonical_version returns has the highest
\* weighted score of the group, and among the members with that score it
\* is the one that comes first in the list.
C17_SelectsFirstMaximum ==
  canonical # NULL =>
    \E i \in 1..Len(document_group) :
      /\ document_group[i].id = canonical
      /\ \A j \in 1..Len(document_group) :
           calculate_canonical_score(document_group[j])
             <= calculate_canonical_score(document_group[i])
      /\ \A j \in 1..(i - 1) :
           calculate_canonical_score(document_group[j])
             < calculate_canonical_score(document_group[i])

\* C17 witness: a group in which the highest score is shared by two
\* members and a member with a lower score comes first; the selection has
\* been made.
C17_Witness ==
  /\ canonical # NULL
  /\ Len(document_group) = 3
  /\ calculate_canonical_score(document_group[1])
       < calculate_canonical_score(document_group[2])
  /\ calculate_canonical_score(document_group[2])
       = calculate_canonical_score(document_group[3])

\* The committed metadata of the members of a group of document ids.
MembersMeta(group) == [i \in 1..Len(group) |-> Meta(group[i])]

\* C15 (as claimed): once set_canonical_version has returned for a group
\* of two or more documents, the metadata of every member holds the
\* winner's id as canonical_document_id, the winner and only the winner
\* has is_canonical true, and every other member has a selection
\* timestamp.
C15_Claim ==
  \A r \in Requests :
    (session[r].pc = "returned" /\ Len(session[r].group) >= 2) =>
      \A i \in 1..Len(session[r].group) :
        LET id == session[r].group[i]
            winner == session[r].canonical
        IN  /\ Meta(id).canonical_document_id = winner
            /\ Meta(id).is_canonical = "true" <=> id = winner
            /\ id # winner => Meta(id).canonical_selected_at

\* C16 (as claimed): in every committed state the members of a group
\* agree on canonical_document_id, at most one of them has is_canonical
\* true, and once a write for the group has been committed at least one
\* has.
C16_Claim ==
  \A r \in Requests :
    LET group == session[r].group
        canonical_members ==
          {i \in 1..Len(group) : Meta(group[i]).is_canonical = "true"}
    IN  /\ \A i, j \in 1..Len(group) :
             Meta(group[i]).canonical_document_id
               = Meta(group[j]).canonical_document_id
        /\ Cardinality(canonical_members) <= 1
        /\ session[r].pc = "returned" => Cardinality(canonical_members) >= 1

\* The audit records of a call of request p: those with the given action
\* and document that carry the run id of p.
AuditRecords(p, action_type, document_id) ==
  {a \in audit_log : /\ a.action_type = action_type
                     /\ a.resource_id = document_id
                     /\ a.ingestion_run_id = p}

\* C18 (as claimed): a call that returned a new document, a new version
\* or an exact duplicate has exactly one audit record with the action
\* import, version_created or duplicate, the id of that document and the
\* run id of the call.
C18_Claim ==
  \A p \in Procs :
    (pc[p] = "done" /\ result[p].success) =>
      LET action_type ==
            CASE result[p].status = "completed" -> "import"
              [] result[p].status = "version_created" -> "version_created"
              [] OTHER -> "duplicate"
      IN  Cardinality(AuditRecords(p, action_type, result[p].document_id)) = 1

\* C19 (as claimed): the similarity function returns 0.0 when exactly one
\* of the two texts is empty and 1.0 when both are.
C19_Claim ==
  LET c == similarity_call
      empty1 == TextLen(c.text1) = 0
      empty2 == TextLen(c.text2) = 0
  IN  c.score # -1 =>
        /\ (empty1 /\ ~empty2) \/ (~empty1 /\ empty2) => c.score = 0
        /\ (empty1 /\ empty2) => c.score = 100000

\* C20: after a version attempt that raised, the would-be parent is still
\* the current version, no document is stored as a version of it, and
\* the tables match: every DocumentVersion row has its Document row and
\* every Document row has its DocumentVersion row.
C20_FailedVersionLeavesNothing ==
  /\ \A p \in Procs :
       local[p].version_error # "None" =>
         /\ DocById(local[p].potential_version_parent).is_current_version
         /\ \A d \in documents :
              d.parent_document_id # local[p].potential_version_parent
  /\ \A v \in document_versions :
       \E d \in documents : d.id = v.document_id
  /\ \A d \in documents :
       \E v \in document_versions :
         v.document_id = d.id /\ v.version_number = d.version_number

\* C20 witness: the version attempt of a call raised IntegrityError inside
\* create_new_version and was rolled back, and the call has returned.
C20_Witness ==
  \E p \in Procs :
    /\ pc[p] = "done"
    /\ local[p].version_error = "integrity_error"
    /\ \E d \in documents : d.id = local[p].potential_version_parent

\* The rows create_new_version puts into the session of a call that is on
\* the new-version path.
VersionTransaction(p) ==
  create_new_version(DocById(local[p].potential_version_parent),
                     Files[call[p].file].text, Files[call[p].file].bytes,
                     next_uuid)

\* C21 (as claimed): a call that returned completed has added exactly one
\* Document and exactly one DocumentVersion, the version-1 initial record;
\* and the transaction of a call on the new-version path adds one
\* Document and a single DocumentVersion, the record of the transition.
C21_Claim ==
  \A p \in Procs :
    /\ (pc[p] = "done" /\ result[p].status = "completed") =>
         /\ Cardinality({d \in documents : d.id = result[p].document_id}) = 1
         /\ {v \in document_versions : v.document_id = result[p].document_id}
              = {InitialVersion(result[p].document_id,
                                Files[call[p].file].bytes)}
    /\ pc[p] = "version_path" =>
         LET v == VersionTransaction(p)
         IN  /\ v.new_doc.id \notin {d.id : d \in documents}
             /\ Cardinality({v.old_version, v.new_version}) = 1

\* C22 (as claimed): each (document_id, version_number) pair has at most
\* one committed DocumentVersion record, and the transaction of a call on
\* the new-version path holds no history record for a pair that already
\* has one.
C22_Claim ==
  /\ \A v1, v2 \in document_versions :
       ( /\ v1.document_id = v2.document_id
         /\ v1.version_number = v2.version_number ) => v1 = v2
  /\ \A p \in Procs :
       pc[p] = "version_path" =>
         LET v == VersionTransaction(p)
         IN  \A row \in {v.old_version, v.new_version} :
               ~\E w \in document_versions :
                   /\ w.document_id = row.document_id
                   /\ w.version_number = row.version_number

\* ------------------------------------------------- chain walks, step by step
\* The digest of the file stored for the member i of a chain.
ChainHash(i) ==
  CASE i = 1 -> "h1" [] i = 2 -> "h2" [] i = 3 -> "h3" [] i = 4 -> "h4"
    [] i = 5 -> "h5" [] OTHER -> "h6"

\* The Document rows of a version chain of n members, oldest first: ids
\* and version numbers 1..n, each member the child of the one before, the
\* last one current.  back is the parent pointer of the first member:
\* NULL in a well-formed chain, the id of a member when the chain has been
\* corrupted into a cycle.
ChainDocuments(n, back) ==
  {[id |-> i, matter_id |-> "m1", file_name |-> Name_abcde_pdf,
    file_hash_sha256 |-> ChainHash(i), extracted_text |-> "t1",
    version_number |-> i, is_current_version |-> (i = n),
    parent_document_id |-> IF i = 1 THEN back ELSE i - 1] : i \in 1..n}

\* The DocumentVersion rows of such a chain, one per member.
ChainVersions(n) ==
  {[document_id |-> i, version_number |-> i,
    file_hash_sha256 |-> ChainHash(i),
    change_type |-> IF i = 1 THEN "initial" ELSE "revision",
    similarity_score |-> IF i = 1 THEN 1000 ELSE 980,
    content_changed |-> (i > 1)] : i \in 1..n}

\* Whether the stored parent pointers lead from every document to a root.
WellFormedChains ==
  \E d \in documents : d.parent_document_id = NULL

\* A stored chain of one to MaxChain members, well formed or corrupted
\* into a cycle of two or more members.
InitChains ==
  /\ \E n \in 1..MaxChain : \E back \in {NULL} \cup 2..n :
       /\ documents = ChainDocuments(n, back)
       /\ document_versions = ChainVersions(n)
  /\ InitCanonical
  /\ matters = {"m1"}
  /\ audit_log = {}
  /\ processed_files = {}
  /\ next_uuid = MaxChain + 1
  /\ calls = 0
  /\ pc = [p \in Procs |-> "idle"]
  /\ call = [p \in Procs |-> NoCall]
  /\ local = [p \in Procs |-> InitialLocal]
  /\ result = [p \in Procs |-> InitialResult]

HasRow(id) == \E d \in documents : d.id = id

\* sorted(versions, key=lambda d: d.version_number) on a list of ids; the
\* sort is stable.
sorted_by_version_number(versions) ==
  LET n == Len(versions)
      perms == {f \in [1..n -> 1..n] : \A i, j \in 1..n : i # j => f[i] # f[j]}
      key(i) == DocById(versions[i]).version_number
      order == CHOOSE f \in perms :
                 \A i, j \in 1..n : i < j =>
                   \/ key(f[i]) < key(f[j])
                   \/ key(f[i]) = key(f[j]) /\ f[i] < f[j]
  IN  [i \in 1..n |-> versions[order[i]]]

\* get_version_chain, the first query: an unknown id returns [].
GetVersionChainBegin(document_id) ==
  /\ walk.pc = "idle"
  /\ walk' = IF HasRow(document_id)
             THEN [NoWalk EXCEPT !.op = "get_version_chain",
                                 !.document_id = document_id,
                                 !.pc = "find_root", !.doc = document_id]
             ELSE [NoWalk EXCEPT !.op = "get_version_chain",
                                 !.document_id = document_id,
                                 !.pc = "returned"]
  /\ UNCHANGED <<canonical_state, similarity_call, grouping, version_call,
                 ingestion_state>>

\* get_version_chain, one pass of "while root_doc.parent_document_id"; a
\* parent without a row ends the call with [].
FindRoot ==
  /\ walk.pc = "find_root"
  /\ LET root_doc == DocById(walk.doc)
     IN  walk' = IF root_doc.parent_document_id # NULL
                 THEN IF HasRow(root_doc.parent_document_id)
                      THEN [walk EXCEPT !.doc = root_doc.parent_document_id]
                      ELSE [walk EXCEPT !.doc = NULL, !.pc = "returned"]
                 ELSE [walk EXCEPT !.pc = "forward"]
  /\ UNCHANGED <<canonical_state, similarity_call, grouping, version_call,
                 ingestion_state>>

\* get_version_chain, one pass of "while current" (the query's .first()
\* may pick any child with the next version number), and the return of
\* the sorted list when there is none.
NextVersion ==
  /\ walk.pc = "forward"
  /\ IF walk.doc = NULL
     THEN walk' = [walk EXCEPT !.pc = "returned",
                               !.versions = sorted_by_version_number(@)]
     ELSE LET current == DocById(walk.doc)
              children ==
                {d.id : d \in {c \in documents :
                   /\ c.parent_document_id = current.id
                   /\ c.version_number = current.version_number + 1}}
          IN  \E next \in IF children = {} THEN {NULL} ELSE children :
                walk' = [walk EXCEPT !.versions = Append(@, current.id),
                                     !.doc = next]
  /\ UNCHANGED <<canonical_state, similarity_call, grouping, version_call,
                 ingestion_state>>

\* get_current_version, up to the loop: an unknown id returns None, a
\* current document is returned as it is.
GetCurrentVersionBegin(document_id) ==
  /\ walk.pc = "idle"
  /\ walk' = IF ~HasRow(document_id)
             THEN [NoWalk EXCEPT !.op = "get_current_version",
                                 !.document_id = document_id,
                                 !.pc = "returned"]
             ELSE IF DocById(document_id).is_current_version
             THEN [NoWalk EXCEPT !.op = "get_current_version",
                                 !.document_id = document_id,
                                 !.pc = "returned", !.doc = document_id,
                                 !.returned = document_id]
             ELSE [NoWalk EXCEPT !.op = "get_current_version",
                                 !.document_id = document_id,
                                 !.pc = "climb", !.doc = document_id,
                                 !.root_id = document_id]
  /\ UNCHANGED <<canonical_state, similarity_call, grouping, version_call,
                 ingestion_state>>

\* get_current_version, one pass of "while doc.parent_document_id".
Climb ==
  /\ walk.pc = "climb"
  /\ LET doc == DocById(walk.doc)
     IN  walk' = IF doc.parent_document_id # NULL
                 THEN IF HasRow(doc.parent_document_id)
                      THEN [walk EXCEPT !.root_id = doc.parent_document_id,
                                        !.doc = doc.parent_document_id]
                      ELSE [walk EXCEPT !.root_id = doc.parent_document_id,
                                        !.doc = NULL, !.pc = "find_current"]
                 ELSE [walk EXCEPT !.pc = "find_current"]
  /\ UNCHANGED <<canonical_state, similarity_call, grouping, version_call,
                 ingestion_state>>

\* get_current_version, the return: the first current document whose
\* parent is root_id, or doc when there is none.
FindCurrent ==
  /\ walk.pc = "find_current"
  /\ LET found == {d.id : d \in {c \in documents :
                      /\ c.parent_document_id = walk.root_id
                      /\ c.is_current_version}}
     IN  \E answer \in IF found = {} THEN {walk.doc} ELSE found :
           walk' = [walk EXCEPT !.pc = "returned", !.returned = answer]
  /\ UNCHANGED <<canonical_state, similarity_call, grouping, version_call,
                 ingestion_state>>

NextChains ==
  \/ \E document_id \in 1..(MaxChain + 1) :
       \/ GetVersionChainBegin(document_id)
       \/ GetCurrentVersionBegin(document_id)
  \/ FindRoot
  \/ NextVersion
  \/ Climb
  \/ FindCurrent

SpecChains == InitChains /\ [][NextChains]_vars

\* The walks under a scheduler that lets a running call take its steps.
SpecChainsFair == SpecChains /\ WF_vars(NextChains)

\* C23 (as claimed): on a well-formed chain get_current_version, called
\* with the id of any member, returns the member that is current.
C23_Claim ==
  ( /\ walk.op = "get_current_version"
    /\ walk.pc = "returned"
    /\ WellFormedChains
    /\ HasRow(walk.document_id) )
  => /\ walk.returned # NULL
     /\ DocById(walk.returned).is_current_version

\* C24 (as claimed): every call of get_version_chain and of
\* get_current_version returns, also on a chain whose parent pointers
\* form a cycle.
C24_Claim == (walk.pc # "idle") ~> (walk.pc = "returned")

\* ------------------------------------------------- duplicate groups alone
\* File names of documents ingested one by one: no two stems are similar.
RowName(i) ==
  CASE i = 1 -> <<"a", ".", "p", "d", "f">>
    [] i = 2 -> <<"b", ".", "p", "d", "f">>
    [] i = 3 -> <<"c", ".", "p", "d", "f">>
    [] i = 4 -> <<"d", ".", "p", "d", "f">>
    [] OTHER -> <<"e", ".", "p", "d", "f">>

\* One to MaxRows documents, each ingested as a new document into one of
\* two matters, with any of the texts (also the empty one).
InitGroups ==
  /\ \E n \in 1..MaxRows :
       \E attrs \in [1..n -> {"m1", "m2"} \X {"t0", "t1", "t2", "t3"}] :
         /\ documents = {NewDocument(i, attrs[i][1], RowName(i), ChainHash(i),
                                     attrs[i][2]) : i \in 1..n}
         /\ document_versions = {InitialVersion(i, ChainHash(i)) : i \in 1..n}
         /\ audit_log = {AuditEntry("import", i, "p1") : i \in 1..n}
         /\ processed_files = 1..n
  /\ InitCanonical
  /\ matters = {"m1", "m2"}
  /\ next_uuid = MaxRows + 1
  /\ calls = 0
  /\ pc = [p \in Procs |-> "idle"]
  /\ call = [p \in Procs |-> NoCall]
  /\ local = [p \in Procs |-> InitialLocal]
  /\ result = [p \in Procs |-> InitialResult]

\* find_duplicate_groups(matter_id): the query returns its rows in some
\* order, the loops build the groups.
FindDuplicateGroups ==
  /\ ~grouping.called
  /\ \E matter_id \in matters :
       \E rows \in Orderings(current_documents_with_text(matter_id)) :
         grouping' = [called |-> TRUE, matter_id |-> matter_id, rows |-> rows,
                      groups |-> build_groups(rows)]
  /\ UNCHANGED <<canonical_state, similarity_call, walk, version_call,
                 ingestion_state>>

NextGroups == FindDuplicateGroups

SpecGroups == InitGroups /\ [][NextGroups]_vars

\* Position of a document in the query result of the grouping call.
RowPosition(d) == CHOOSE i \in 1..Len(grouping.rows) : grouping.rows[i] = d

\* The members of the groups 1..g of the grouping call.
GroupedUpTo(g) ==
  UNION {{grouping.groups[h][k] : k \in 1..Len(grouping.groups[h])} :
           h \in 1..g}

\* C25: every group find_duplicate_groups returns has at least two
\* members and no document is in two groups; the first member of a group
\* (its seed) comes before the others in query order and compares at or
\* above the threshold with each of them; every document after the seed
\* that compares at or above the threshold with it and is in no earlier
\* group is in the seed's group, whatever it compares to with the other
\* members; a document in no group has no such document after it; and the
\* query result A, B, C with sim(A,B) and sim(A,C) above and sim(B,C)
\* below the threshold gives the single group A, B, C.
C25_SeedGrouping ==
  grouping.called =>
    LET rows == grouping.rows
        groups == grouping.groups
        n == Len(groups)
        similar(d1, d2) ==
          compare_documents(d1, d2) >= near_duplicate_threshold
        later(d) == {rows[i] : i \in (RowPosition(d) + 1)..Len(rows)}
    IN  /\ \A g \in 1..n : Len(groups[g]) >= 2
        /\ \A g, h \in 1..n : \A i \in 1..Len(groups[g]) :
             \A j \in 1..Len(groups[h]) :
               groups[g][i] = groups[h][j] => (g = h /\ i = j)
        /\ \A g \in 1..n : \A k \in 2..Len(groups[g]) :
             /\ groups[g][k] \in later(groups[g][1])
             /\ similar(groups[g][1], groups[g][k])
        /\ \A g \in 1..n : \A d \in later(groups[g][1]) :
             (similar(groups[g][1], d) /\ d \notin GroupedUpTo(g - 1))
               => \E k \in 2..Len(groups[g]) : groups[g][k] = d
        /\ \A i \in 1..Len(rows) :
             rows[i] \notin GroupedUpTo(n) =>
               \A d \in later(rows[i]) :
                 similar(rows[i], d) =>
                   \E g \in 1..n : /\ d \in GroupedUpTo(g) \ GroupedUpTo(g - 1)
                                   /\ RowPosition(groups[g][1]) < i
        /\ ( /\ Len(rows) = 3
             /\ rows[1].extracted_text = "t1"
             /\ rows[2].extracted_text = "t2"
             /\ rows[3].extracted_text = "t3" ) => groups = <<rows>>

\* C25 witness: the call has grouped a query result A, B, C in which A
\* compares above the threshold with B and with C, and B compares below
\* it with C.
C25_Witness ==
  /\ grouping.called
  /\ Len(grouping.rows) = 3
  /\ compare_documents(grouping.rows[1], grouping.rows[2])
       >= near_duplicate_threshold
  /\ compare_documents(grouping.rows[1], grouping.rows[3])
       >= near_duplicate_threshold
  /\ compare_documents(grouping.rows[2], grouping.rows[3])
       < near_duplicate_threshold
  /\ Len(grouping.groups) = 1

\* ---------------------------------------------------- create_new_version alone
\* The digest of the bytes a text was extracted from (one file per text).
HashOfText(t) ==
  CASE t = "t0" -> "h5" [] t = "t1" -> "h1" [] t = "t2" -> "h2"
    [] t = "t3" -> "h3" [] t = "t4" -> "h4" [] OTHER -> "h6"

\* create_new_version about to be called: a current document of some
\* version, and a new file that is either a copy of the document's file
\* or a different file with any of the texts.
InitVersion ==
  /\ \E version_number \in 1..MaxVersion, text \in Texts, new_text \in Texts :
       \E new_hash \in {HashOfText(text), "h7"} :
         /\ new_hash = HashOfText(text) => new_text = text
         /\ documents =
              {[NewDocument(1, "m1", Name_abcde_pdf, HashOfText(text), text)
                  EXCEPT !.version_number = version_number]}
         /\ version_call = [called |-> FALSE, new_text |-> new_text,
                            new_hash_sha256 |-> new_hash]
  /\ similarity_call = NoSimilarityCall
  /\ walk = NoWalk
  /\ grouping = NoGrouping
  /\ document_group = <<>>
  /\ canonical = NULL
  /\ metadata_json = [id \in {} |-> NoCanonicalKeys]
  /\ session = [r \in Requests |-> IdleSession]
  /\ matters = {"m1"}
  /\ document_versions = {}
  /\ audit_log = {}
  /\ processed_files = {1}
  /\ next_uuid = 2
  /\ calls = 0
  /\ pc = [p \in Procs |-> "idle"]
  /\ call = [p \in Procs |-> NoCall]
  /\ local = [p \in Procs |-> InitialLocal]
  /\ result = [p \in Procs |-> InitialResult]

\* create_new_version(existing_doc, ...) up to its return: the rows it
\* added are in the session, nothing is committed.
CreateNewVersion ==
  /\ ~version_call.called
  /\ \E existing_doc \in documents :
       version_call' =
         [called |-> TRUE, new_text |-> version_call.new_text,
          new_hash_sha256 |-> version_call.new_hash_sha256,
          existing_doc |-> existing_doc,
          added |-> create_new_version(existing_doc, version_call.new_text,
                                       version_call.new_hash_sha256,
                                       next_uuid)]
  /\ next_uuid' = next_uuid + 1
  /\ UNCHANGED <<canonical_state, similarity_call, walk, grouping, matters,
                 tables, processed_files, calls, pc, call, local, result>>

NextVersionCall == CreateNewVersion

SpecVersion == InitVersion /\ [][NextVersionCall]_vars

C27_Claim ==
  \A p \in Procs :
    (pc[p] = "done" /\ result[p].error = "audit_error")
    => /\ result[p].success
       /\ \E d \in documents : d.id = local[p].document_id
       /\ \E v \in document_versions : v.document_id = local[p].document_id

\* C28 (as claimed): the weights a call of the similarity function uses
\* are those of the long-text profile exactly when the longer text has
\* more than 1000 characters; they sum to 1.0; the long-text profile
\* weighs the sequence ratio and the edit-distance ratio each more than
\* the short-text profile does, and the short-text profile weighs the
\* word overlap and the n-gram overlap each more than the long-text
\* profile does.
C28_Claim ==
  LET c == similarity_call
      used == similarity_weights(TextLen(c.text1), TextLen(c.text2))
      long == similarity_weights(long_text_limit + 1, long_text_limit + 1)
      short == similarity_weights(long_text_limit, long_text_limit)
      is_long == Max(TextLen(c.text1), TextLen(c.text2)) > 1000
  IN  (c.implementation = "backend" /\ c.score # -1) =>
        /\ used = IF is_long THEN long ELSE short
        /\ used.seq + used.lev + used.jac + used.cos + used.len = 100
        /\ long # short
        /\ is_long => (used.seq > short.seq /\ used.lev > short.lev)
        /\ ~is_long => (used.jac > long.jac /\ used.cos > long.cos)

\* C28 (amended): the weights a call of the similarity function uses are
\* those of the long-text profile exactly when the longer text has more
\* than 1000 characters; they sum to 1.0; the long-text profile weighs
\* the sequence ratio and the n-gram overlap each more than the short-text
\* profile does, and the short-text profile weighs the edit-distance
\* ratio and the word overlap each more than the long-text profile does.
C28_WeightProfiles ==
  LET c == similarity_call
      used == similarity_weights(TextLen(c.text1), TextLen(c.text2))
      long == similarity_weights(long_text_limit + 1, long_text_limit + 1)
      short == similarity_weights(long_text_limit, long_text_limit)
      is_long == Max(TextLen(c.text1), TextLen(c.text2)) > 1000
  IN  (c.implementation = "backend" /\ c.score # -1) =>
        /\ used = IF is_long THEN long ELSE short
        /\ used.seq + used.lev + used.jac + used.cos + used.len = 100
        /\ long # short
        /\ is_long => (used.seq > short.seq /\ used.cos > short.cos)
        /\ ~is_long => (used.lev > long.lev /\ used.jac > long.jac)

\* C28 witness: the function has scored a text of more than 1000
\* characters against a text of at most 1000 characters that is not empty.
C28_Witness ==
  /\ similarity_call.implementation = "backend"
  /\ similarity_call.score > 0
  /\ TextLen(similarity_call.text1) > 1000
  /\ TextLen(similarity_call.text2) <= 1000

\* C29: every group find_duplicate_groups returns has at most one member
\* whose committed metadata has is_canonical true, and its members that
\* carry a canonical_document_id all carry the same one.
C29_OneCanonicalPerGroup ==
  \A M \in matters :
    \A groups \in find_duplicate_groups(M) :
      \A g \in 1..Len(groups) :
        LET ids == {groups[g][i].id : i \in 1..Len(groups[g])}
        IN  /\ Cardinality({id \in ids : Meta(id).is_canonical = "true"}) <= 1
            /\ \A id1, id2 \in ids :
                 ( /\ Meta(id1).canonical_document_id # NULL
                   /\ Meta(id2).canonical_document_id # NULL )
                 => Meta(id1).canonical_document_id
                      = Meta(id2).canonical_document_id

\* C29 witness: three documents are stored whose groups depend on the
\* order of the query, and set_canonical_version has returned for a group
\* of two of them and for the group of all three.
C29_Witness ==
  /\ \E groups \in find_duplicate_groups("m1") :
       Len(groups) = 1 /\ Len(groups[1]) = 3
  /\ \E r1, r2 \in Requests :
       /\ session[r1].pc = "returned" /\ Len(session[r1].group) = 2
       /\ session[r2].pc = "returned" /\ Len(session[r2].group) = 3

\* ------------------------------------------ ingestion over stored versions
\* The tables hold a well-formed version chain of at least two members,
\* so superseded (non-current) rows exist; no call is running.
InitSuperseded ==
  /\ \E n \in 2..MaxChain :
       /\ documents = ChainDocuments(n, NULL)
       /\ document_versions = ChainVersions(n)
  /\ InitCanonical
  /\ matters = {"m1"}
  /\ audit_log = {}
  /\ processed_files = {}
  /\ next_uuid = MaxChain + 1
  /\ calls = 0
  /\ pc = [p \in Procs |-> "idle"]
  /\ call = [p \in Procs |-> NoCall]
  /\ local = [p \in Procs |-> InitialLocal]
  /\ result = [p \in Procs |-> InitialResult]

\* One request ingests files, among them files with the bytes of
\* superseded versions, while one request runs the canonical operations.
NextSuperseded ==
  \/ \E p \in {"p1"} :
       \/ UploadSimilar(p)
       \/ NearDuplicateCheck(p)
       \/ VersionPath(p)
       \/ NewDocumentPath(p)
       \/ PostProcessing(p)
  \/ \E r \in {"c1"} :
       \/ SetCanonicalBegin(r)
       \/ EnsureCanonicalVersion(r)
       \/ MarkMember(r)
       \/ AbortWrite(r)
       \/ CommitWrite(r)

SpecSuperseded == InitSuperseded /\ [][NextSuperseded]_vars

\* C30: is_current_version is monotone: a Document whose
\* is_current_version is false in a committed state is not current in the
\* committed state after any step of an ingestion, a version transition or
\* a canonical-selection operation.
C30_Monotone ==
  [][\A d \in documents :
       ~d.is_current_version =>
         \A e \in documents' : e.id = d.id => ~e.is_current_version]_vars

\* C30 witness: a set_canonical_version call has returned, and a call that
\* uploaded the bytes of a superseded version has gone through the version
\* transition, which was rolled back, and has returned; the superseded row
\* is stored.
C30_Witness ==
  /\ session["c1"].pc = "returned"
  /\ pc["p1"] = "done"
  /\ local["p1"].version_error = "integrity_error"
  /\ \E d \in documents :
       /\ ~d.is_current_version
       /\ d.file_hash_sha256 = Files[call["p1"].file].bytes

====
